---- MODULE Spec2Model ----
(***************************************************************************)
(* A model of fine_tune.ipynb: the cells of the notebook executed top to   *)
(* bottom by one kernel.  Each code cell is a straight-line program; an    *)
(* unhandled exception halts the execution at that cell.                   *)
(*                                                                         *)
(* Text is modelled as a sequence of tokens (a token stands for a run of   *)
(* characters), so that concatenation, prefix matching and prefix removal  *)
(* are computed and not assumed.                                           *)
(***************************************************************************)
EXTENDS Integers, Sequences, FiniteSets, TLC

\* ------------------------------------------------------------------ bounds
\* Largest number of data rows of the spreadsheet.
MaxRows == 2
\* Largest number of empty cells of the spreadsheet.
MaxEmpty == 2
\* Largest number of examples of a dataset handed to the split on its own.
MaxExamples == 7

\* ------------------------------------------------------- program constants
\* num_train_epochs=2
NumTrainEpochs == 2
\* per_device_train_batch_size=2
PerDeviceTrainBatchSize == 2
\* dataset.train_test_split(0.2): the holdout fraction, in percent.
TestSizePercent == 20

\* "<|eot_id|>"
EOT == <<"<|eot_id|>">>
\* "inference_output " : the prefix of the regular expression and of removeprefix
InferencePrefix == <<"inference_output", " ">>
\* f"full_prompt {topic}" : the text before the topic
PromptPrefix == <<"full_prompt", " ">>

VARIABLES
    pc,                \* the statement the kernel executes next
    error,             \* the exception that halted the run, or "none"
    model,             \* the base model handle: "unset" | "loaded"
    model_for_training,\* the adapted model handle: "unset" | "attached"
    use_cache,         \* config object -> its use_cache attribute
    edited_df,         \* the data frame read from EDITED_CSV_PATH
    topics,            \* the list of topics
    topic_idx,         \* number of topics the for loop has finished
    full_text,         \* the flat list of training texts
    dataset,           \* Dataset.from_dict({"text": full_text})
    train_test_split,  \* dataset.train_test_split(0.2)
    trainer_state,     \* the trainer's state
    epoch,             \* training epochs the trainer has finished
    global_step,       \* optimizer steps the trainer has taken
    evals,             \* evaluations on the validation split the trainer has finished
    checkpoints,       \* global steps at which a checkpoint was written under lora_layers/train
    lora_dir           \* the output directory "lora"

vars == <<pc, error, model, model_for_training, use_cache, edited_df, topics,
          topic_idx, full_text, dataset, train_test_split, trainer_state, epoch,
          global_step, evals, checkpoints, lora_dir>>

\* ------------------------------------------------------------ text values
\* A cell or a list element is a str or the float NaN (pandas' missing value).
NaN == [isna |-> TRUE, s |-> <<>>]
Str(s) == [isna |-> FALSE, s |-> s]

\* ---------------------------------------------------------- the spreadsheet
\* The header names a CSV file may use, in the order they appear in the file.
ColumnPool ==
    << InferencePrefix \o <<"A">>, PromptPrefix \o <<"A">>,
       InferencePrefix \o <<"B">>, PromptPrefix \o <<"B">>,
       <<"inference_output">> >>

\* The subsequence of ColumnPool whose positions are in keep.
RECURSIVE Pick(_, _)
Pick(keep, i) ==
    IF i > Len(ColumnPool) THEN <<>>
    ELSE (IF i \in keep THEN <<ColumnPool[i]>> ELSE <<>>) \o Pick(keep, i + 1)

\* What a non-empty cell of a column holds: a text of its own.
CellText(col, r) == col \o <<":", ToString(r)>>

Range(seq) == {seq[i] : i \in 1..Len(seq)}

\* A CSV file: a header, a number of rows, and the set of its empty cells.
CsvFile(columns, nrows, empty) == [columns |-> columns, nrows |-> nrows, empty |-> empty]

\* The cells of a file with these columns and this many rows.
Cells(columns, nrows) == Range(columns) \X (1..nrows)

NoFrame == [columns |-> <<>>, nrows |-> 0, empty |-> {}]

\* pd.read_csv: an empty field becomes NaN, any other field stays text; a column
\* whose every field is empty (and that has a row) is a float64 column, any
\* other column is an object column.
Column(df, col) ==
    [dtype  |-> IF df.nrows > 0 /\ \A r \in 1..df.nrows : <<col, r>> \in df.empty
                THEN "float64" ELSE "object",
     values |-> [r \in 1..df.nrows |->
                    IF <<col, r>> \in df.empty THEN NaN ELSE Str(CellText(col, r))]]


\* Series + Series of this notebook's columns (float64 or object): two float64
\* columns add to a float64 column of NaN; with an object column the sum is
\* taken where both sides are present and is NaN elsewhere.
SeriesAdd(a, b) ==
    [dtype  |-> IF a.dtype = "float64" /\ b.dtype = "float64" THEN "float64" ELSE "object",
     values |-> [r \in DOMAIN a.values |->
                    IF a.values[r].isna \/ b.values[r].isna THEN NaN
                    ELSE Str(a.values[r].s \o b.values[r].s)]]

\* Series + str: a float64 Series and a str have no addition (TypeError); on an
\* object Series the text is appended where a value is present.
CanAddStr(a) == a.dtype = "object"
SeriesAddStr(a, s) ==
    [dtype  |-> "object",
     values |-> [r \in DOMAIN a.values |->
                    IF a.values[r].isna THEN NaN ELSE Str(a.values[r].s \o s)]]

\* re.match("inference_output .*", column): the pattern is anchored at the start
\* of the name only.
ReMatch(column) ==
    /\ Len(column) >= Len(InferencePrefix)
    /\ SubSeq(column, 1, Len(InferencePrefix)) = InferencePrefix

\* column.removeprefix("inference_output ")
RemovePrefix(column) ==
    IF ReMatch(column) THEN SubSeq(column, Len(InferencePrefix) + 1, Len(column))
    ELSE column

\* A variant of TopicsOf that keeps a topic only if its prompt column exists.
TopicsOfPaired(df) ==
    LET paired(column) ==
            ReMatch(column) /\ PromptPrefix \o RemovePrefix(column) \in Range(df.columns)
        matching == SelectSeq(df.columns, paired)
    IN  [i \in 1..Len(matching) |-> RemovePrefix(matching[i])]

\* topics = [column.removeprefix(...) for column in edited_df.columns if re.match(...)]
TopicsOf(df) ==
    LET matching == SelectSeq(df.columns, ReMatch)
    IN  [i \in 1..Len(matching) |-> RemovePrefix(matching[i])]

\* f"full_prompt {topic}" and f"inference_output {topic}"
PromptColumn(topic) == PromptPrefix \o topic
OutputColumn(topic) == InferencePrefix \o topic

\* edited_df[f"full_prompt {topic}"] + edited_df[f"inference_output {topic}"]
PromptPlusOutput(df, topic) ==
    SeriesAdd(Column(df, PromptColumn(topic)), Column(df, OutputColumn(topic)))

\* A variant of TopicTexts that drops the missing values (as .dropna() would).
TopicTextsDropNa(df, topic) ==
    SelectSeq(<<>> \o SeriesAddStr(PromptPlusOutput(df, topic), EOT).values,
              LAMBDA v : ~v.isna)

\* The values full_text.extend(...) appends for one topic.
TopicTexts(df, topic) == SeriesAddStr(PromptPlusOutput(df, topic), EOT).values

\* ----------------------------------------------------------- the dataset
NoDataset == [exists |-> FALSE, dtype |-> "null", text |-> <<>>]

\* The Arrow type Dataset.from_dict infers for the "text" column: a list of str
\* is a string column, a list of float NaN a double column, an empty list a null
\* column; a list that mixes str and float has no type.
ArrowType(texts) ==
    IF texts = <<>> THEN "null"
    ELSE IF \A i \in 1..Len(texts) : ~texts[i].isna THEN "string"
    ELSE IF \A i \in 1..Len(texts) : texts[i].isna THEN "double"
    ELSE "invalid"

NoSplit == [exists |-> FALSE, train |-> <<>>, test |-> <<>>]

\* A variant of NTest that rounds down: floor(test_size * n_samples).
NTestFloor(n_samples) == (TestSizePercent * n_samples) \div 100

\* n_test = ceil(test_size * n_samples).  The double nearest to 0.2 is
\* 0.2 + 1/(5 * 2^54), so the rounded product is N/5 exactly when 5 divides N and
\* lies strictly between the same two integers as N/5 otherwise: the ceiling is
\* that of the exact quotient.
NTest(n_samples) == (TestSizePercent * n_samples + 99) \div 100

\* train_size is None: n_train = n_samples - n_test
NTrain(n_samples) == n_samples - NTest(n_samples)

\* generator.permutation(len(self))
GeneratorPermutation(n) == Permutations(1..n)

\* test_indices = permutation[:n_test]
TestIndices(permutation, n_test) == SubSeq(permutation, 1, n_test)

\* train_indices = permutation[n_test : (n_test + n_train)]
TrainIndices(permutation, n_test, n_train) ==
    SubSeq(permutation, n_test + 1, n_test + n_train)

\* --------------------------------------------------------------- configs
\* get_peft_model wraps the base model in place and PeftModel takes its config
\* attribute from it: model.config and model_for_training.config are one object.
ConfigOf(handle) == "config"
ConfigObjects == {ConfigOf("model"), ConfigOf("model_for_training")}

\* --------------------------------------------------------- the directory
\* What the path "lora" may hold before the run: nothing (absent), or a
\* directory with any of these files, left by an earlier run or by the user.
PriorFiles ==
    { [name |-> "adapter_model.safetensors", content |-> "earlier adapter"],
      [name |-> "model.safetensors", content |-> "base weights"] }

Absent == [exists |-> FALSE, files |-> {}]
Directory(files) == [exists |-> TRUE, files |-> files]

\* The files PeftModel.save_pretrained writes: the adapter's state dict alone
\* and the adapter's configuration.
AdapterFiles ==
    { [name |-> "adapter_model.safetensors", content |-> "adapter of this run"],
      [name |-> "adapter_config.json", content |-> "config of this run"],
      [name |-> "README.md", content |-> "model card of this run"] }

\* A variant of SavePretrained that empties the directory before it writes.
SavePretrainedClean(dir) == Directory(AdapterFiles)

\* os.makedirs(save_directory, exist_ok=True), then each file is written under
\* its name: a file of the same name is replaced, any other file is left.
SavePretrained(dir) ==
    Directory({f \in dir.files : \A g \in AdapterFiles : g.name # f.name} \cup AdapterFiles)

\* ------------------------------------------------------------------ Init
Init ==
    /\ pc = "load_model"
    /\ error = "none"
    /\ model = "unset"
    /\ model_for_training = "unset"
    /\ use_cache = [c \in ConfigObjects |-> TRUE]
    /\ edited_df = NoFrame
    /\ topics = <<>>
    /\ topic_idx = 0
    /\ full_text = <<>>
    /\ dataset = NoDataset
    /\ train_test_split = NoSplit
    /\ trainer_state = "none"
    /\ epoch = 0
    /\ global_step = 0
    /\ evals = 0
    /\ checkpoints = {}
    /\ lora_dir \in {Absent} \cup {Directory(fs) : fs \in SUBSET PriorFiles}

\* A variant of Halt in which the exception is swallowed and the run goes on to
\* the last cell.
HaltContinues(exception) ==
    /\ pc' = "save_pretrained"
    /\ error' = exception

\* An unhandled exception halts the execution at the cell that raised it.
Halt(exception) ==
    /\ pc' = "halted"
    /\ error' = exception


\* ------------------------------------------------------------ Load Model
\* AutoTokenizer.from_pretrained / AutoModelForCausalLM.from_pretrained
LoadModel ==
    /\ pc = "load_model"
    /\ model' = "loaded"
    /\ pc' = "get_peft_model"
    /\ UNCHANGED <<error, model_for_training, use_cache, edited_df, topics, topic_idx,
                   full_text, dataset, train_test_split, trainer_state, epoch,
                   global_step, evals, checkpoints, lora_dir>>

\* The download or the authentication fails: the cell raises.
LoadModelFails ==
    /\ pc = "load_model"
    /\ Halt("OSError")
    /\ UNCHANGED <<model, model_for_training, use_cache, edited_df, topics, topic_idx,
                   full_text, dataset, train_test_split, trainer_state, epoch,
                   global_step, evals, checkpoints, lora_dir>>

\* ----------------------------------------------------------- Set up LoRA
\* model_for_training = get_peft_model(model, peft_config)
GetPeftModel ==
    /\ pc = "get_peft_model"
    /\ model_for_training' = "attached"
    /\ pc' = "print_trainable_parameters"
    /\ UNCHANGED <<error, model, use_cache, edited_df, topics, topic_idx, full_text,
                   dataset, train_test_split, trainer_state, epoch, global_step,
                   evals, checkpoints, lora_dir>>

\* model_for_training.print_trainable_parameters()
PrintTrainableParameters ==
    /\ pc = "print_trainable_parameters"
    /\ pc' = "read_csv"
    /\ UNCHANGED <<error, model, model_for_training, use_cache, edited_df, topics,
                   topic_idx, full_text, dataset, train_test_split, trainer_state,
                   epoch, global_step, evals, checkpoints, lora_dir>>

\* --------------------------------------------------------- Dataset Setup
\* edited_df = pd.read_csv(EDITED_CSV_PATH): the file has a header of at least
\* one column.
ReadCsv ==
    /\ pc = "read_csv"
    /\ \E keep \in (SUBSET (1..Len(ColumnPool))) \ {{}}, nrows \in 0..MaxRows :
          \E empty \in SUBSET Cells(Pick(keep, 1), nrows) :
             /\ Cardinality(empty) <= MaxEmpty
             /\ edited_df' = CsvFile(Pick(keep, 1), nrows, empty)
    /\ pc' = "topics"
    /\ UNCHANGED <<error, model, model_for_training, use_cache, topics, topic_idx,
                   full_text, dataset, train_test_split, trainer_state, epoch,
                   global_step, evals, checkpoints, lora_dir>>

\* There is no file at EDITED_CSV_PATH, or the file has no header.
ReadCsvFails ==
    /\ pc = "read_csv"
    /\ Halt("FileNotFoundError")
    /\ UNCHANGED <<model, model_for_training, use_cache, edited_df, topics, topic_idx,
                   full_text, dataset, train_test_split, trainer_state, epoch,
                   global_step, evals, checkpoints, lora_dir>>

\* topics = [...] ; full_text = []
ComputeTopics ==
    /\ pc = "topics"
    /\ topics' = TopicsOf(edited_df)
    /\ full_text' = <<>>
    /\ topic_idx' = 0
    /\ pc' = "for_topic"
    /\ UNCHANGED <<error, model, model_for_training, use_cache, edited_df, dataset,
                   train_test_split, trainer_state, epoch, global_step, evals,
                   checkpoints, lora_dir>>

\* The topic the for loop is at.
CurrentTopic == topics[topic_idx + 1]

\* One iteration of the for loop: full_text.extend(prompt + output + "<|eot_id|>")
ForTopic ==
    /\ pc = "for_topic"
    /\ topic_idx < Len(topics)
    /\ PromptColumn(CurrentTopic) \in Range(edited_df.columns)
    /\ CanAddStr(PromptPlusOutput(edited_df, CurrentTopic))
    /\ full_text' = full_text \o TopicTexts(edited_df, CurrentTopic)
    /\ topic_idx' = topic_idx + 1
    /\ UNCHANGED <<pc, error, model, model_for_training, use_cache, edited_df, topics,
                   dataset, train_test_split, trainer_state, epoch, global_step,
                   evals, checkpoints, lora_dir>>

\* edited_df[f"full_prompt {topic}"] names no column of the frame.
ForTopicKeyError ==
    /\ pc = "for_topic"
    /\ topic_idx < Len(topics)
    /\ PromptColumn(CurrentTopic) \notin Range(edited_df.columns)
    /\ Halt("KeyError")
    /\ UNCHANGED <<model, model_for_training, use_cache, edited_df, topics, topic_idx,
                   full_text, dataset, train_test_split, trainer_state, epoch,
                   global_step, evals, checkpoints, lora_dir>>

\* The sum of the two columns is a float64 Series: + "<|eot_id|>" raises.
ForTopicTypeError ==
    /\ pc = "for_topic"
    /\ topic_idx < Len(topics)
    /\ PromptColumn(CurrentTopic) \in Range(edited_df.columns)
    /\ ~CanAddStr(PromptPlusOutput(edited_df, CurrentTopic))
    /\ Halt("TypeError")
    /\ UNCHANGED <<model, model_for_training, use_cache, edited_df, topics, topic_idx,
                   full_text, dataset, train_test_split, trainer_state, epoch,
                   global_step, evals, checkpoints, lora_dir>>

\* dataset = Dataset.from_dict({"text": full_text}), once the loop has ended
FromDict ==
    /\ pc = "for_topic"
    /\ topic_idx = Len(topics)
    /\ ArrowType(full_text) # "invalid"
    /\ dataset' = [exists |-> TRUE, dtype |-> ArrowType(full_text), text |-> full_text]
    /\ pc' = "train_test_split"
    /\ UNCHANGED <<error, model, model_for_training, use_cache, edited_df, topics,
                   topic_idx, full_text, train_test_split, trainer_state, epoch,
                   global_step, evals, checkpoints, lora_dir>>

\* The list mixes str and float: Arrow cannot convert it.
FromDictFails ==
    /\ pc = "for_topic"
    /\ topic_idx = Len(topics)
    /\ ArrowType(full_text) = "invalid"
    /\ Halt("ArrowInvalid")
    /\ UNCHANGED <<model, model_for_training, use_cache, edited_df, topics, topic_idx,
                   full_text, dataset, train_test_split, trainer_state, epoch,
                   global_step, evals, checkpoints, lora_dir>>

\* train_test_split = dataset.train_test_split(0.2)
TrainTestSplit ==
    /\ pc = "train_test_split"
    /\ LET n_samples == Len(dataset.text)
           n_test == NTest(n_samples)
           n_train == NTrain(n_samples)
       IN  /\ n_train # 0
           /\ \E permutation \in GeneratorPermutation(n_samples) :
                train_test_split' =
                    [exists |-> TRUE,
                     train  |-> TrainIndices(permutation, n_test, n_train),
                     test   |-> TestIndices(permutation, n_test)]
    /\ pc' = "SFTTrainer"
    /\ UNCHANGED <<error, model, model_for_training, use_cache, edited_df, topics,
                   topic_idx, full_text, dataset, trainer_state, epoch, global_step,
                   evals, checkpoints, lora_dir>>

\* "With n_samples=..., the resulting train set will be empty."
TrainTestSplitFails ==
    /\ pc = "train_test_split"
    /\ NTrain(Len(dataset.text)) = 0
    /\ Halt("ValueError")
    /\ UNCHANGED <<model, model_for_training, use_cache, edited_df, topics, topic_idx,
                   full_text, dataset, train_test_split, trainer_state, epoch,
                   global_step, evals, checkpoints, lora_dir>>


\* --------------------------------------------------------------- Trainer
\* trainer = SFTTrainer(...): the constructor tokenizes the "text" column of both
\* splits.
MakeTrainer ==
    /\ pc = "SFTTrainer"
    /\ dataset.dtype = "string"
    /\ trainer_state' = "initializing"
    /\ pc' = "use_cache_off_model"
    /\ UNCHANGED <<error, model, model_for_training, use_cache, edited_df, topics,
                   topic_idx, full_text, dataset, train_test_split, epoch,
                   global_step, evals, checkpoints, lora_dir>>

\* The tokenizer is given a float: "text input must be of type str".
MakeTrainerFails ==
    /\ pc = "SFTTrainer"
    /\ dataset.dtype # "string"
    /\ Halt("ValueError")
    /\ UNCHANGED <<model, model_for_training, use_cache, edited_df, topics, topic_idx,
                   full_text, dataset, train_test_split, trainer_state, epoch,
                   global_step, evals, checkpoints, lora_dir>>

\* ------------------------------------------------------- Train the Model
\* A variant of SetUseCache whose assignment is lost.
SetUseCacheIgnored(handle, value) == use_cache

\* <handle>.config.use_cache = value
SetUseCache(handle, value) == [use_cache EXCEPT ![ConfigOf(handle)] = value]

\* model.config.use_cache = False
DisableCacheModel ==
    /\ pc = "use_cache_off_model"
    /\ use_cache' = SetUseCache("model", FALSE)
    /\ pc' = "use_cache_off_training"
    /\ UNCHANGED <<error, model, model_for_training, edited_df, topics, topic_idx,
                   full_text, dataset, train_test_split, trainer_state, epoch,
                   global_step, evals, checkpoints, lora_dir>>

\* model_for_training.config.use_cache = False
DisableCacheTraining ==
    /\ pc = "use_cache_off_training"
    /\ use_cache' = SetUseCache("model_for_training", FALSE)
    /\ pc' = "train"
    /\ UNCHANGED <<error, model, model_for_training, edited_df, topics, topic_idx,
                   full_text, dataset, train_test_split, trainer_state, epoch,
                   global_step, evals, checkpoints, lora_dir>>

\* Optimizer steps of one epoch: the batches of the train split, the last one
\* possibly short.
StepsPerEpoch ==
    (Len(train_test_split.train) + PerDeviceTrainBatchSize - 1) \div PerDeviceTrainBatchSize

\* trainer.train() is entered: the first epoch starts.
BeginTraining ==
    /\ pc = "train"
    /\ trainer_state = "initializing"
    /\ trainer_state' = "training-epoch"
    /\ UNCHANGED <<pc, error, model, model_for_training, use_cache, edited_df, topics,
                   topic_idx, full_text, dataset, train_test_split, epoch,
                   global_step, evals, checkpoints, lora_dir>>

\* One batch: forward, backward, optimizer step.
TrainStep ==
    /\ pc = "train"
    /\ trainer_state = "training-epoch"
    /\ global_step < StepsPerEpoch * (epoch + 1)
    /\ global_step' = global_step + 1
    /\ UNCHANGED <<pc, error, model, model_for_training, use_cache, edited_df, topics,
                   topic_idx, full_text, dataset, train_test_split, trainer_state,
                   epoch, evals, checkpoints, lora_dir>>

\* The epoch's batches are done; eval_strategy="epoch": the evaluation starts.
BeginEvaluate ==
    /\ pc = "train"
    /\ trainer_state = "training-epoch"
    /\ global_step = StepsPerEpoch * (epoch + 1)
    /\ epoch' = epoch + 1
    /\ trainer_state' = "evaluating"
    /\ UNCHANGED <<pc, error, model, model_for_training, use_cache, edited_df, topics,
                   topic_idx, full_text, dataset, train_test_split, global_step,
                   evals, checkpoints, lora_dir>>

\* A variant of AfterEvaluate that stops after the first evaluation.
AfterEvaluateEarly(epochs_done) ==
    IF epochs_done >= 1 THEN "completed" ELSE "training-epoch"

\* The state after the evaluation that follows an epoch.
AfterEvaluate(epochs_done) ==
    IF epochs_done >= NumTrainEpochs THEN "completed" ELSE "training-epoch"

\* The evaluation is done; save_strategy="epoch": a checkpoint is written under
\* lora_layers/train; then the next epoch starts or the training is over.
FinishEvaluate ==
    /\ pc = "train"
    /\ trainer_state = "evaluating"
    /\ evals' = evals + 1
    /\ checkpoints' = checkpoints \cup {global_step}
    /\ trainer_state' = AfterEvaluate(epoch)
    /\ UNCHANGED <<pc, error, model, model_for_training, use_cache, edited_df, topics,
                   topic_idx, full_text, dataset, train_test_split, epoch,
                   global_step, lora_dir>>

\* trainer.train() returns.
TrainReturns ==
    /\ pc = "train"
    /\ trainer_state = "completed"
    /\ pc' = "empty_cache"
    /\ UNCHANGED <<error, model, model_for_training, use_cache, edited_df, topics,
                   topic_idx, full_text, dataset, train_test_split, trainer_state,
                   epoch, global_step, evals, checkpoints, lora_dir>>

\* A variant of TrainFails in which the flags are restored on the way out (as a
\* try/finally around trainer.train() would).
TrainFailsRestoring ==
    /\ pc = "train"
    /\ trainer_state \in {"training-epoch", "evaluating"}
    /\ trainer_state' = "failed"
    /\ use_cache' = [c \in ConfigObjects |-> TRUE]
    /\ Halt("OutOfMemoryError")
    /\ UNCHANGED <<model, model_for_training, edited_df, topics, topic_idx,
                   full_text, dataset, train_test_split, epoch, global_step, evals,
                   checkpoints, lora_dir>>

\* A batch or an evaluation exhausts the accelerator memory: trainer.train() raises.
TrainFails ==
    /\ pc = "train"
    /\ trainer_state \in {"training-epoch", "evaluating"}
    /\ trainer_state' = "failed"
    /\ Halt("OutOfMemoryError")
    /\ UNCHANGED <<model, model_for_training, use_cache, edited_df, topics, topic_idx,
                   full_text, dataset, train_test_split, epoch, global_step, evals,
                   checkpoints, lora_dir>>

\* torch.cuda.empty_cache()
EmptyCache ==
    /\ pc = "empty_cache"
    /\ pc' = "use_cache_on_model"
    /\ UNCHANGED <<error, model, model_for_training, use_cache, edited_df, topics,
                   topic_idx, full_text, dataset, train_test_split, trainer_state,
                   epoch, global_step, evals, checkpoints, lora_dir>>

\* model.config.use_cache = True
EnableCacheModel ==
    /\ pc = "use_cache_on_model"
    /\ use_cache' = SetUseCache("model", TRUE)
    /\ pc' = "use_cache_on_training"
    /\ UNCHANGED <<error, model, model_for_training, edited_df, topics, topic_idx,
                   full_text, dataset, train_test_split, trainer_state, epoch,
                   global_step, evals, checkpoints, lora_dir>>

\* model_for_training.config.use_cache = True
EnableCacheTraining ==
    /\ pc = "use_cache_on_training"
    /\ use_cache' = SetUseCache("model_for_training", TRUE)
    /\ pc' = "save_pretrained"
    /\ UNCHANGED <<error, model, model_for_training, edited_df, topics, topic_idx,
                   full_text, dataset, train_test_split, trainer_state, epoch,
                   global_step, evals, checkpoints, lora_dir>>

\* ----------------------------------------------------------- Save output
\* model_for_training.save_pretrained("lora")
Save ==
    /\ pc = "save_pretrained"
    /\ lora_dir' = SavePretrained(lora_dir)
    /\ pc' = "done"
    /\ UNCHANGED <<error, model, model_for_training, use_cache, edited_df, topics,
                   topic_idx, full_text, dataset, train_test_split, trainer_state,
                   epoch, global_step, evals, checkpoints>>

\* ------------------------------------------------------------------ Next
Next ==
    \/ LoadModel
    \/ LoadModelFails
    \/ GetPeftModel
    \/ PrintTrainableParameters
    \/ ReadCsv
    \/ ReadCsvFails
    \/ ComputeTopics
    \/ ForTopic
    \/ ForTopicKeyError
    \/ ForTopicTypeError
    \/ FromDict
    \/ FromDictFails
    \/ TrainTestSplit
    \/ TrainTestSplitFails
    \/ MakeTrainer
    \/ MakeTrainerFails
    \/ DisableCacheModel
    \/ DisableCacheTraining
    \/ BeginTraining
    \/ TrainStep
    \/ BeginEvaluate
    \/ FinishEvaluate
    \/ TrainReturns
    \/ TrainFails
    \/ EmptyCache
    \/ EnableCacheModel
    \/ EnableCacheTraining
    \/ Save

Spec == Init /\ [][Next]_vars


\* ------------------------------------------------- the split on its own
\* The state in which train_test_split is called on the dataset of a file with
\* one topic and nrows rows, in which no cell or every output cell is empty.
StateBeforeSplit(nrows, empty) ==
    LET columns == <<OutputColumn(<<"A">>), PromptColumn(<<"A">>)>>
        df == CsvFile(columns, nrows, empty)
        texts == <<>> \o TopicTexts(df, <<"A">>)
    IN  /\ pc = "train_test_split"
        /\ error = "none"
        /\ model = "loaded"
        /\ model_for_training = "attached"
        /\ use_cache = [c \in ConfigObjects |-> TRUE]
        /\ edited_df = df
        /\ topics = TopicsOf(df)
        /\ topic_idx = 1
        /\ full_text = texts
        /\ dataset = [exists |-> TRUE, dtype |-> ArrowType(texts), text |-> texts]
        /\ train_test_split = NoSplit
        /\ trainer_state = "none"
        /\ epoch = 0
        /\ global_step = 0
        /\ evals = 0
        /\ checkpoints = {}
        /\ lora_dir = Absent

SplitInit ==
    \E nrows \in 0..MaxExamples :
        \E empty \in {{}, {OutputColumn(<<"A">>)} \X (1..nrows)} :
            StateBeforeSplit(nrows, empty)

SplitNext == TrainTestSplit \/ TrainTestSplitFails

SplitSpec == SplitInit /\ [][SplitNext]_vars


\* ================================================================ claims

\* The statements that precede the for loop of the Dataset Setup cell.
BeforeLoop ==
    {"load_model", "get_peft_model", "print_trainable_parameters", "read_csv", "topics"}

\* The for loop has run over every topic.
LoopEnded == topic_idx = Len(topics) /\ Len(topics) >= 1

\* What row r of a topic is to contribute: the prompt cell followed by the
\* output cell followed by the marker, or a missing value if one of the two
\* cells is empty.
ExampleOf(df, topic, r) ==
    IF <<PromptColumn(topic), r>> \in df.empty \/ <<OutputColumn(topic), r>> \in df.empty
    THEN NaN
    ELSE Str(CellText(PromptColumn(topic), r) \o CellText(OutputColumn(topic), r) \o EOT)

Field(df, col, r) == IF <<col, r>> \in df.empty THEN <<>> ELSE CellText(col, r)

\* C2: every element of full_text is, for some discovered topic and some row,
\* the str made of the prompt field, the output field and "<|eot_id|>" and of
\* nothing else, also when the prompt field or the output field is empty.
C2_ExactConcatenation ==
    \A i \in 1..Len(full_text) :
        \E k \in 1..Len(topics) : \E r \in 1..edited_df.nrows :
            full_text[i] = Str(Field(edited_df, PromptColumn(topics[k]), r)
                               \o Field(edited_df, OutputColumn(topics[k]), r)
                               \o EOT)

\* The split has been attempted: the cell is past train_test_split.
SplitAttempted == pc # "train_test_split"

\* The two parts share no position, repeat no position, hold positions of the
\* dataset only, and their sizes sum to n.
IsPartition(train, test, n) ==
    /\ Range(train) \cap Range(test) = {}
    /\ Range(train) \cup Range(test) = 1..n
    /\ Cardinality(Range(train)) = Len(train)
    /\ Cardinality(Range(test)) = Len(test)
    /\ Len(train) + Len(test) = n

\* t is 20% of n rounded up: the least integer that is at least n / 5.
IsRoundedUpFifth(t, n) == 5 * t >= n /\ 5 * (t - 1) < n

\* C3 as stated: for every non-empty dataset the split yields a train part and
\* a validation part that partition the positions, with the validation part the
\* rounded 20%.
C3_SplitOfEveryNonEmpty ==
    (SplitAttempted /\ Len(dataset.text) >= 1) =>
        /\ train_test_split.exists
        /\ IsPartition(train_test_split.train, train_test_split.test, Len(dataset.text))
        /\ IsRoundedUpFifth(Len(train_test_split.test), Len(dataset.text))

\* C3 amended: for every dataset of N >= 2 examples the split yields a train
\* part and a validation part that share no position, whose sizes sum to N and
\* whose validation size is 20% of N rounded up (20 examples: 4 and 16); for
\* N <= 1 the train part would be empty and the split raises ValueError, leaving
\* no split.
C3_SplitOfTwoOrMore ==
    /\ NTest(20) = 4 /\ NTrain(20) = 16
    /\ (SplitAttempted /\ Len(dataset.text) >= 2) =>
          /\ error = "none"
          /\ train_test_split.exists
          /\ IsPartition(train_test_split.train, train_test_split.test, Len(dataset.text))
          /\ IsRoundedUpFifth(Len(train_test_split.test), Len(dataset.text))
    /\ (SplitAttempted /\ Len(dataset.text) <= 1) =>
          /\ error = "ValueError"
          /\ pc = "halted"
          /\ ~train_test_split.exists

\* C3 witness: six examples have been split into four and two.
C3_Witness ==
    /\ train_test_split.exists
    /\ Len(dataset.text) = 6
    /\ Len(train_test_split.train) = 4
    /\ Len(train_test_split.test) = 2

\* C4: when no column of the table matches "inference_output {TOPIC}", no
\* dataset is ever built (the construction stops with an error before an empty
\* dataset exists to be handed to the split).
C4_NoEmptyDataset ==
    (\A c \in Range(edited_df.columns) : ~ReMatch(c)) => ~dataset.exists

\* Both handles read use_cache = value.
BothUseCache(value) ==
    /\ use_cache[ConfigOf("model")] = value
    /\ use_cache[ConfigOf("model_for_training")] = value

\* C5: while trainer.train() runs (the statement is being executed, the trainer
\* is in a training epoch or evaluating), use_cache is False on the base model's
\* config and on the adapted model's config.
C5_NoCacheWhileTraining ==
    (pc = "train" \/ trainer_state \in {"training-epoch", "evaluating"}) =>
        BothUseCache(FALSE)

\* C5 witness: the trainer evaluates after its second epoch, the flags are False.
C5_Witness ==
    /\ trainer_state = "evaluating"
    /\ epoch = NumTrainEpochs
    /\ BothUseCache(FALSE)

\* C6: the trainer evaluates exactly once per epoch: it enters evaluating only
\* from training-epoch, at the end of an epoch not yet evaluated; an evaluation
\* is counted only in evaluating, for the epoch just trained; completed is
\* entered only with NumTrainEpochs epochs and NumTrainEpochs evaluations done;
\* completed and failed are never left.
C6_EvaluateOncePerEpoch ==
    [][ /\ (trainer_state' = "evaluating" /\ trainer_state # "evaluating") =>
              /\ trainer_state = "training-epoch"
              /\ evals = epoch
              /\ epoch' = epoch + 1
        /\ evals' # evals =>
              /\ trainer_state = "evaluating"
              /\ evals' = evals + 1
              /\ evals' = epoch
        /\ epoch' # epoch => trainer_state = "training-epoch" /\ epoch' = epoch + 1
        /\ trainer_state' = "completed" =>
              /\ epoch' = NumTrainEpochs
              /\ evals' = NumTrainEpochs
        /\ trainer_state \in {"completed", "failed"} => trainer_state' = trainer_state
      ]_vars

\* C6 witness: the trainer has completed after two epochs and two evaluations.
C6_Witness ==
    /\ trainer_state = "completed"
    /\ epoch = 2
    /\ evals = 2

\* The place of a statement in the notebook.
StatementIndex(statement) ==
    CASE statement = "load_model" -> 1
      [] statement = "get_peft_model" -> 2
      [] statement = "print_trainable_parameters" -> 3
      [] statement = "read_csv" -> 4
      [] statement = "topics" -> 5
      [] statement = "for_topic" -> 6
      [] statement = "train_test_split" -> 7
      [] statement = "SFTTrainer" -> 8
      [] statement = "use_cache_off_model" -> 9
      [] statement = "use_cache_off_training" -> 10
      [] statement = "train" -> 11
      [] statement = "empty_cache" -> 12
      [] statement = "use_cache_on_model" -> 13
      [] statement = "use_cache_on_training" -> 14
      [] statement = "save_pretrained" -> 15
      [] statement = "done" -> 16
      [] OTHER -> 0

\* The stage a statement belongs to: 1 Model Loader, 2 Adapter Attacher,
\* 3 Dataset Builder, 4 Trainer, 5 Persister, 6 the end of the run.
StageOf(statement) ==
    LET i == StatementIndex(statement)
    IN  IF i <= 1 THEN i
        ELSE IF i <= 3 THEN 2
        ELSE IF i <= 7 THEN 3
        ELSE IF i <= 14 THEN 4
        ELSE IF i = 15 THEN 5
        ELSE 6

\* C7: the stages run one after the other, each at most once: a step never goes
\* back to an earlier statement, enters a stage only from the stage before it
\* and only while no error has been raised; a run that has halted takes no
\* further step; and the directory "lora" is written only by the Persister, with
\* the model loaded, the adapter attached, the dataset built and split and the
\* training completed.
C7_SequentialNoRetry ==
    [][ /\ pc # "halted" /\ pc # "done"
        /\ error = "none"
        /\ pc' # "halted" =>
              /\ error' = "none"
              /\ StatementIndex(pc') >= StatementIndex(pc)
              /\ StageOf(pc') \in {StageOf(pc), StageOf(pc) + 1}
        /\ pc' = "halted" => error' # "none"
        /\ lora_dir' # lora_dir =>
              /\ pc = "save_pretrained"
              /\ model = "loaded"
              /\ model_for_training = "attached"
              /\ dataset.exists
              /\ train_test_split.exists
              /\ trainer_state = "completed"
      ]_vars

\* C7 witness: the training has failed, the run has halted, and "lora" is as it
\* was (absent).
C7_Witness ==
    /\ pc = "halted"
    /\ trainer_state = "failed"
    /\ lora_dir = Absent

\* C8 as stated: after the Persister has run, the directory holds the files of
\* this run's adapter and nothing else.
C8_OnlyThisRunsAdapter ==
    pc = "done" => lora_dir.exists /\ lora_dir.files = AdapterFiles

\* C8 amended: the Persister raises no error on an absent, empty or used
\* directory; afterwards the directory exists and holds the files of this run's
\* adapter, each in place of any earlier file of the same name; the Persister
\* writes no base-model weights; every earlier file of another name is still
\* there, and no other file is.
C8_AdapterWrittenOthersKept ==
    [][ pc = "save_pretrained" =>
          /\ pc' = "done"
          /\ error' = "none"
          /\ lora_dir'.exists
          /\ AdapterFiles \subseteq lora_dir'.files
          /\ \A f \in lora_dir'.files \ lora_dir.files : f \in AdapterFiles
          /\ \A f \in AdapterFiles : f.content # "base weights"
          /\ \A f \in lora_dir'.files \ AdapterFiles :
                f \in lora_dir.files /\ \A g \in AdapterFiles : g.name # f.name
          /\ \A f \in lora_dir.files :
                (\A g \in AdapterFiles : g.name # f.name) => f \in lora_dir'.files
      ]_vars

\* C8 witness: the Persister has run on a directory that held base weights, and
\* they are still there beside the adapter of this run.
C8_Witness ==
    /\ pc = "done"
    /\ AdapterFiles \subseteq lora_dir.files
    /\ \E f \in lora_dir.files : f.content = "base weights"

\* C9: the flags are restored on the success path only: once the Train cell has
\* finished both are True; once trainer.train() has raised the run is halted
\* with both still False.
C9_RestoredOnSuccessOnly ==
    /\ pc \in {"save_pretrained", "done"} => BothUseCache(TRUE)
    /\ trainer_state = "failed" => pc = "halted" /\ BothUseCache(FALSE)

\* C9 witness: trainer.train() has raised in the second epoch; the run is halted
\* and the flags are False.
C9_Witness ==
    /\ trainer_state = "failed"
    /\ pc = "halted"
    /\ epoch = 1
    /\ BothUseCache(FALSE)

\* The table has an "inference_output T" column with no "full_prompt T" column.
HasOutputWithoutPrompt(df) ==
    \E c \in Range(df.columns) :
        ReMatch(c) /\ PromptPrefix \o RemovePrefix(c) \notin Range(df.columns)

\* The list of topics has been computed.
TopicsComputed == pc \notin BeforeLoop /\ error \notin {"OSError", "FileNotFoundError"}

\* C10: the topics are those of the "inference_output {TOPIC}" columns, whether
\* or not a "full_prompt {TOPIC}" column exists; with an output column that has
\* no prompt column, no dataset and no split is ever created and no trainer is
\* built (a KeyError halts the cell whatever the earlier topics have put into
\* full_text); a prompt column without an output column gives no topic and no
\* element of full_text.
C10_TopicsFromOutputColumns ==
    /\ TopicsComputed =>
          \A t \in {<<"A">>, <<"B">>} :
              (t \in Range(topics)) <=> (OutputColumn(t) \in Range(edited_df.columns))
    /\ HasOutputWithoutPrompt(edited_df) =>
          /\ ~dataset.exists
          /\ ~train_test_split.exists
          /\ trainer_state = "none"
          /\ pc \in {"topics", "for_topic", "halted"}
    /\ error = "KeyError" =>
          /\ pc = "halted"
          /\ HasOutputWithoutPrompt(edited_df)
          /\ ~dataset.exists
    /\ \A i \in 1..Len(full_text) :
          \E k \in 1..Len(topics) :
              /\ OutputColumn(topics[k]) \in Range(edited_df.columns)
              /\ PromptColumn(topics[k]) \in Range(edited_df.columns)
              /\ \E r \in 1..edited_df.nrows : full_text[i] = ExampleOf(edited_df, topics[k], r)

\* C10 witness: the first topic has been flattened, the second has no prompt
\* column: the cell has halted on the KeyError and there is no dataset.
C10_Witness ==
    /\ error = "KeyError"
    /\ Len(full_text) > 0
    /\ ~dataset.exists

====
